---- MODULE Spec2Model ----
(***************************************************************************)
(* Model of cursive-core/src/theme/palette.rs: the Palette (a total map    *)
(* from the 11 PaletteColor roles to colors plus a tree of custom values), *)
(* its mutators, merge, and the toml tree builder iterate_toml.            *)
(***************************************************************************)
EXTENDS Integers, Sequences, FiniteSets, TLC

VARIABLES
    palette,    \* the Palette value the program holds: [basic, custom]
    pre,        \* the Palette held before the last call (self of the call)
    call,       \* the last call: its name and its arguments
    ret,        \* what the last call returned
    nops        \* number of calls made so far

vars == <<palette, pre, call, ret, nops>>

(***************************************************************************)
(* Bounds of the model.                                                    *)
(***************************************************************************)
MaxOps == 2         \* calls made on one palette in a run
MaxArrayLen == 2    \* longest toml array drawn as a builder input

(***************************************************************************)
(* Values.                                                                 *)
(***************************************************************************)

\* enum PaletteColor: the variants, by name.
PaletteColor ==
    { "Background", "Shadow", "View", "Primary", "Secondary", "Tertiary",
      "TitlePrimary", "TitleSecondary", "Highlight", "HighlightInactive",
      "HighlightText" }

\* The colors that occur: those of the default palette, and two others that
\* callers pass in (palette.rs doc example: Light(Red), Dark(Green)).
Color ==
    { "Dark(Blue)", "Dark(Black)", "Dark(White)", "Light(White)", "Dark(Red)",
      "Light(Blue)", "Light(Red)", "Dark(Green)" }

\* enum PaletteNode.
ColorNode(color) == [type |-> "Color", color |-> color]
NamespaceNode(map) == [type |-> "Namespace", map |-> map]

\* Option and Result values.
None == << >>
Some(x) == << x >>
Ok(x) == << "Ok", x >>
Err(e) == << "Err", e >>
NoSuchColor == "NoSuchColor"
Unit == "()"

\* HashMap::default(): the empty map.
EmptyMap == << >>

\* HashMap::insert: insert or overwrite one key.
Insert(map, key, value) ==
    [k \in (DOMAIN map) \cup {key} |-> IF k = key THEN value ELSE map[k]]

\* HashMap::get
Get(map, key) == IF key \in DOMAIN map THEN Some(map[key]) ELSE None

\* HashMap::iter / Table::iter: the orders in which a map's keys can be visited.
IterOrders(map) ==
    LET n == Cardinality(DOMAIN map)
    IN  { order \in [1..n -> DOMAIN map] :
            \A i, j \in 1..n : i # j => order[i] # order[j] }

(***************************************************************************)
(* Spellings of names: lower case, and the snake_case form of a PascalCase *)
(* name (TitlePrimary -> title_primary).                                   *)
(***************************************************************************)
UpperLetters == "ABCDEFGHIJKLMNOPQRSTUVWXYZ"
LowerLetters == "abcdefghijklmnopqrstuvwxyz"
CharAt(s, i) == SubSeq(s, i, i)
IsUpper(ch) == \E i \in 1..Len(UpperLetters) : CharAt(UpperLetters, i) = ch
LowerChar(ch) ==
    IF IsUpper(ch)
    THEN CharAt(LowerLetters,
                CHOOSE i \in 1..Len(UpperLetters) : CharAt(UpperLetters, i) = ch)
    ELSE ch

RECURSIVE ToLowerFrom(_, _)
ToLowerFrom(s, i) ==
    IF i > Len(s) THEN "" ELSE LowerChar(CharAt(s, i)) \o ToLowerFrom(s, i + 1)
ToLower(s) == ToLowerFrom(s, 1)

RECURSIVE SnakeCaseFrom(_, _)
SnakeCaseFrom(s, i) ==
    IF i > Len(s) THEN ""
    ELSE (IF i > 1 /\ IsUpper(CharAt(s, i)) THEN "_" ELSE "")
         \o LowerChar(CharAt(s, i)) \o SnakeCaseFrom(s, i + 1)
SnakeCase(s) == SnakeCaseFrom(s, 1)

\* The snake_case alias of each role, and the two spellings of each role: its
\* PascalCase name and its snake_case alias.
SnakeName == [r \in PaletteColor |-> SnakeCase(r)]
Spellings == [r \in PaletteColor |-> {r, SnakeName[r]}]
LowerSpellings == [r \in PaletteColor |-> {ToLower(s) : s \in Spellings[r]}]
\* The roles a key names exactly, and those it names when case is ignored.
RoleNamed(key) == {r \in PaletteColor : key \in Spellings[r]}
RoleNamedIgnoringCase(key) ==
    LET lower == ToLower(key) IN {r \in PaletteColor : lower \in LowerSpellings[r]}

\* from_str comparing without regard to case.
from_str_IgnoreCase(s) ==
    LET named == RoleNamedIgnoringCase(s)
    IN  IF named # {} THEN Ok(CHOOSE r \in named : TRUE) ELSE Err(NoSuchColor)

\* from_str with the alias of TitleSecondary resolving to TitlePrimary.
from_str_Typo(s) ==
    CASE s \in {"title_secondary"} -> Ok("TitlePrimary")
      [] s \in {"TitleSecondary"} -> Ok("TitleSecondary")
      [] OTHER ->
           LET named == RoleNamed(s)
           IN  IF named # {} THEN Ok(CHOOSE r \in named : TRUE) ELSE Err(NoSuchColor)

(***************************************************************************)
(* impl FromStr for PaletteColor                                           *)
(***************************************************************************)
from_str(s) ==
    CASE s \in {"Background", "background"} -> Ok("Background")
      [] s \in {"Shadow", "shadow"} -> Ok("Shadow")
      [] s \in {"View", "view"} -> Ok("View")
      [] s \in {"Primary", "primary"} -> Ok("Primary")
      [] s \in {"Secondary", "secondary"} -> Ok("Secondary")
      [] s \in {"Tertiary", "tertiary"} -> Ok("Tertiary")
      [] s \in {"TitlePrimary", "title_primary"} -> Ok("TitlePrimary")
      [] s \in {"TitleSecondary", "title_secondary"} -> Ok("TitleSecondary")
      [] s \in {"Highlight", "highlight"} -> Ok("Highlight")
      [] s \in {"HighlightInactive", "highlight_inactive"} -> Ok("HighlightInactive")
      [] s \in {"HighlightText", "highlight_text"} -> Ok("HighlightText")
      [] OTHER -> Err(NoSuchColor)

\* Default with the value the doc comment gives for TitleSecondary.
Default_DocComment ==
    [ basic |->
        [ Background |-> "Dark(Blue)",
          Shadow |-> "Dark(Black)",
          View |-> "Dark(White)",
          Primary |-> "Dark(Black)",
          Secondary |-> "Dark(Blue)",
          Tertiary |-> "Light(White)",
          TitlePrimary |-> "Dark(Red)",
          TitleSecondary |-> "Dark(Yellow)",
          Highlight |-> "Dark(Red)",
          HighlightInactive |-> "Dark(Blue)",
          HighlightText |-> "Dark(White)" ],
      custom |-> << >> ]

(***************************************************************************)
(* impl Default for Palette                                                *)
(***************************************************************************)
Default ==
    [ basic |->
        [ Background |-> "Dark(Blue)",
          Shadow |-> "Dark(Black)",
          View |-> "Dark(White)",
          Primary |-> "Dark(Black)",
          Secondary |-> "Dark(Blue)",
          Tertiary |-> "Light(White)",
          TitlePrimary |-> "Dark(Red)",
          TitleSecondary |-> "Light(Blue)",
          Highlight |-> "Dark(Red)",
          HighlightInactive |-> "Dark(Blue)",
          HighlightText |-> "Dark(White)" ],
      custom |-> EmptyMap ]

(***************************************************************************)
(* impl Palette                                                            *)
(***************************************************************************)

\* Index<PaletteColor>: palette[palette_color]
index(p, palette_color) == p.basic[palette_color]

\* index_mut replacing the whole map by the one entry assigned.
index_mut_Single(p, palette_color, color) ==
    [p EXCEPT !.basic = [r \in {palette_color} |-> color]]

\* IndexMut<PaletteColor>: palette[palette_color] = color
index_mut(p, palette_color, color) ==
    [p EXCEPT !.basic = [@ EXCEPT ![palette_color] = color]]

\* Palette::custom
custom(p, key) ==
    LET node == Get(p.custom, key)
    IN  IF node # None /\ node[1].type = "Color" THEN Some(node[1].color) ELSE None

\* set_basic_color storing the color as a custom one when the key is no role.
set_basic_color_Insert(p, key, color) ==
    LET c == from_str(key)
    IN  IF c[1] = "Ok"
        THEN [self |-> index_mut(p, c[2], color), ret |-> Ok(Unit)]
        ELSE [self |-> [p EXCEPT !.custom = Insert(@, key, ColorNode(color))],
              ret |-> Err(c[2])]

\* Palette::set_basic_color: the palette after the call, and the value returned.
set_basic_color(p, key, color) ==
    LET c == from_str(key)
    IN  IF c[1] = "Ok"
        THEN [self |-> index_mut(p, c[2], color), ret |-> Ok(Unit)]
        ELSE [self |-> p, ret |-> Err(c[2])]

\* set_color storing the color as a custom one whatever set_basic_color says.
set_color_Both(p, key, color) ==
    LET r == set_basic_color(p, key, color)
    IN  [r.self EXCEPT !.custom = Insert(@, key, ColorNode(color))]

\* Palette::set_color
set_color(p, key, color) ==
    LET r == set_basic_color(p, key, color)
    IN  IF r.ret[1] = "Err"
        THEN [r.self EXCEPT !.custom = Insert(@, key, ColorNode(color))]
        ELSE r.self

\* add_namespace adding the entries to a namespace already under the key.
add_namespace_Union(p, key, namespace) ==
    LET old == IF key \in DOMAIN p.custom /\ p.custom[key].type = "Namespace"
               THEN p.custom[key].map ELSE EmptyMap
        both == [k \in (DOMAIN old) \cup (DOMAIN namespace) |->
                    IF k \in DOMAIN namespace THEN namespace[k] ELSE old[k]]
    IN  [p EXCEPT !.custom = Insert(@, key, NamespaceNode(both))]

\* Palette::add_namespace
add_namespace(p, key, namespace) ==
    [p EXCEPT !.custom = Insert(@, key, NamespaceNode(namespace))]

\* The loop of Palette::merge over the entries of the namespace, visited in
\* `order`.
RECURSIVE merge_loop(_, _, _)
merge_loop(result, map, order) ==
    IF order = << >>
    THEN result
    ELSE LET key == Head(order)
             value == map[key]
         IN  merge_loop(
                 IF value.type = "Color"
                 THEN set_color(result, key, value.color)
                 ELSE add_namespace(result, key, value.map),
                 map, Tail(order))

\* The namespace Palette::merge selects: Some(map) when custom[namespace] is a
\* Namespace node.
merge_selected(p, namespace) ==
    LET node == Get(p.custom, namespace)
    IN  IF node # None /\ node[1].type = "Namespace" THEN Some(node[1].map) ELSE None

\* merge overlaying the namespace on a fresh default palette instead of a
\* clone of self.
merge_Fresh(p, namespace, order) ==
    LET sel == merge_selected(p, namespace)
    IN  IF sel # None THEN merge_loop(Default, sel[1], order) ELSE p

\* Palette::merge, the selected namespace being iterated in `order`.
merge(p, namespace, order) ==
    LET sel == merge_selected(p, namespace)
    IN  IF sel # None THEN merge_loop(p, sel[1], order) ELSE p

\* Extend<(PaletteColor, Color)>::extend
RECURSIVE extend(_, _)
extend(p, iter) ==
    IF iter = << >>
    THEN p
    ELSE extend(index_mut(p, Head(iter)[1], Head(iter)[2]), Tail(iter))

(***************************************************************************)
(* toml::Value, as far as the builder looks at it.                         *)
(***************************************************************************)
TString(text) == [kind |-> "String", str |-> text]
TArray(items) == [kind |-> "Array", items |-> items]
TTable(table) == [kind |-> "Table", table |-> table]
TBoolean(b) == [kind |-> "Boolean", bool |-> b]

\* toml::Value::as_str
as_str(value) == IF value.kind = "String" THEN Some(value.str) ELSE None

\* Color::parse (theme/color.rs): text -> Option<Color>.
ColorParse(text) ==
    CASE text = "red" -> Some("Dark(Red)")
      [] text = "green" -> Some("Dark(Green)")
      [] text = "light red" -> Some("Light(Red)")
      [] OTHER -> None

\* colors.iter().flat_map(toml::Value::as_str)
RECURSIVE flat_map_as_str(_)
flat_map_as_str(colors) ==
    IF colors = << >> THEN << >>
    ELSE as_str(Head(colors)) \o flat_map_as_str(Tail(colors))

\* .flat_map(Color::parse)
RECURSIVE flat_map_parse(_)
flat_map_parse(strs) ==
    IF strs = << >> THEN << >>
    ELSE ColorParse(Head(strs)) \o flat_map_parse(Tail(strs))

\* Iterator::next on a fresh iterator.
next(iter) == IF iter = << >> THEN None ELSE Some(Head(iter))

\* Option::map(PaletteNode::Color)
map_color(opt) == IF opt = None THEN None ELSE Some(ColorNode(opt[1]))

\* The Array arm picking the last valid color instead of the first.
array_node_Last(colors) ==
    LET parsed == flat_map_parse(flat_map_as_str(colors))
    IN  map_color(IF parsed = << >> THEN None ELSE Some(parsed[Len(parsed)]))

\* The Array arm of iterate_toml's closure.
array_node(colors) == map_color(next(flat_map_parse(flat_map_as_str(colors))))

\* The String arm of iterate_toml's closure.
string_node(color) == map_color(ColorParse(color))

\* .collect() of (key, node) pairs into a HashMap.
RECURSIVE collect(_)
collect(pairs) ==
    IF pairs = << >> THEN EmptyMap
    ELSE LET last == pairs[Len(pairs)]
         IN  Insert(collect(SubSeq(pairs, 1, Len(pairs) - 1)), last[1], last[2])

\* iterate_toml: the (key, node) pairs it yields when the table is visited in
\* `order`. A nested table is collected into a map, which does not depend on
\* the order its entries are visited in (its keys are distinct).
RECURSIVE iterate_toml(_, _)
iterate_toml(table, order) ==
    IF order = << >> THEN << >>
    ELSE LET key == Head(order)
             value == table[key]
             node ==
                 CASE value.kind = "Table" ->
                        Some(NamespaceNode(collect(
                            iterate_toml(value.table,
                                CHOOSE o \in IterOrders(value.table) : TRUE))))
                   [] value.kind = "Array" -> array_node(value.items)
                   [] value.kind = "String" -> string_node(value.str)
                   [] OTHER -> None
             item == IF node = None THEN << >> ELSE << <<key, node[1]>> >>
         IN  item \o iterate_toml(table, Tail(order))

\* The loop of Palette::load_toml over the pairs iterate_toml yields.
RECURSIVE load_loop(_, _)
load_loop(p, pairs) ==
    IF pairs = << >> THEN p
    ELSE LET key == Head(pairs)[1]
             value == Head(pairs)[2]
         IN  load_loop(
                 IF value.type = "Color"
                 THEN set_color(p, key, value.color)
                 ELSE add_namespace(p, key, value.map),
                 Tail(pairs))

\* Palette::load_toml
load_toml(p, table, order) == load_loop(p, iterate_toml(table, order))

(***************************************************************************)
(* Inputs of the calls.                                                    *)
(***************************************************************************)

\* Colors callers pass in.
InColors == {"Light(Red)", "Dark(Green)"}

\* Keys passed to set_color and set_basic_color: the 22 spellings from_str
\* knows, other capitalisations of them, and names that are no role.
RoleSpellings ==
    { "Background", "background", "Shadow", "shadow", "View", "view",
      "Primary", "primary", "Secondary", "secondary", "Tertiary", "tertiary",
      "TitlePrimary", "title_primary", "TitleSecondary", "title_secondary",
      "Highlight", "highlight", "HighlightInactive", "highlight_inactive",
      "HighlightText", "highlight_text" }
OtherKeys == {"BACKGROUND", "titleprimary", "Title_Primary", "theme", "a", "x"}
Keys == RoleSpellings \cup OtherKeys

\* Keys passed to add_namespace and merge.
NamespaceKeys == {"theme", "a", "Background"}

\* Maps passed to add_namespace.
Mx == [x |-> ColorNode("Light(Red)")]
My == [y |-> ColorNode("Dark(Green)")]
Namespaces ==
    { EmptyMap,
      Mx,
      [a |-> ColorNode("Dark(Green)")],
      [a |-> NamespaceNode(Mx)],
      [a |-> NamespaceNode(My), theme |-> NamespaceNode(EmptyMap)],
      [a |-> NamespaceNode(Mx), x |-> ColorNode("Dark(Green)"),
       shadow |-> ColorNode("Light(Red)")],
      [TitlePrimary |-> ColorNode("Light(Red)"),
       title_primary |-> ColorNode("Dark(Green)")],
      [BACKGROUND |-> ColorNode("Light(Red)"), View |-> ColorNode("Dark(Green)")] }

\* Iterators passed to extend.
ExtendIters ==
    { << >>,
      << <<"Shadow", "Dark(Green)">>, <<"Primary", "Light(Red)">> >>,
      << <<"Shadow", "Dark(Green)">>, <<"Shadow", "Light(Red)">> >>,
      << <<"HighlightText", "Light(Red)">> >> }

\* Tables passed to load_toml.
Tables ==
    { EmptyMap,
      [Background |-> TString("green"), a |-> TString("light red")],
      [theme |-> TTable([a |-> TTable([x |-> TString("light red")])]),
       a |-> TTable([y |-> TString("green")])],
      [theme |-> TTable([TitlePrimary |-> TString("light red"),
                         title_primary |-> TString("green")])],
      [a |-> TArray(<<TString("not-a-color"), TString("green"), TString("red")>>),
       x |-> TBoolean(TRUE), View |-> TString("not-a-color")],
      [theme |-> TTable([shadow |-> TString("green"), x |-> TBoolean(FALSE),
                         a |-> TTable(EmptyMap)]),
       x |-> TString("green")],
      [Primary |-> TString("green"), primary |-> TString("light red")] }

(***************************************************************************)
(* The state machine: one palette, and the calls made on it.               *)
(***************************************************************************)
NoCall ==
    [op |-> "default", key |-> "", role |-> "", color |-> "", map |-> EmptyMap,
     iter |-> << >>, table |-> EmptyMap, order |-> << >>]

Init ==
    /\ palette = Default
    /\ pre = Default
    /\ call = NoCall
    /\ ret = Unit
    /\ nops = 0

\* The effect of a call on self, with the record of the call.
Called(c, after, returned) ==
    /\ nops < MaxOps
    /\ nops' = nops + 1
    /\ pre' = palette
    /\ call' = c
    /\ palette' = after
    /\ ret' = returned

\* Palette::default(): the program drops its palette and starts over from a
\* fresh one.
NewDefault ==
    /\ nops > 0
    /\ nops' = 0
    /\ pre' = palette
    /\ call' = NoCall
    /\ palette' = Default
    /\ ret' = Unit

\* palette[role] = color
IndexMut ==
    \E role \in PaletteColor, color \in InColors :
        Called([NoCall EXCEPT !.op = "index_mut", !.role = role, !.color = color],
               index_mut(palette, role, color), Unit)

SetColor ==
    \E key \in Keys, color \in InColors :
        Called([NoCall EXCEPT !.op = "set_color", !.key = key, !.color = color],
               set_color(palette, key, color), Unit)

SetBasicColor ==
    \E key \in Keys, color \in InColors :
        LET r == set_basic_color(palette, key, color)
        IN  Called([NoCall EXCEPT !.op = "set_basic_color", !.key = key,
                                  !.color = color],
                   r.self, r.ret)

AddNamespace ==
    \E key \in NamespaceKeys, namespace \in Namespaces :
        Called([NoCall EXCEPT !.op = "add_namespace", !.key = key,
                              !.map = namespace],
               add_namespace(palette, key, namespace), Unit)

\* palette = palette.merge(namespace): the caller goes on with the palette
\* merge returns. The HashMap is iterated in an order the hasher decides.
Merge ==
    \E namespace \in NamespaceKeys :
        LET sel == merge_selected(palette, namespace)
        IN  \E order \in IterOrders(IF sel # None THEN sel[1] ELSE EmptyMap) :
                Called([NoCall EXCEPT !.op = "merge", !.key = namespace,
                                      !.order = order],
                       merge(palette, namespace, order), Unit)

Extend ==
    \E iter \in ExtendIters :
        Called([NoCall EXCEPT !.op = "extend", !.iter = iter],
               extend(palette, iter), Unit)

\* palette.load_toml(table). The order Table::iter visits the keys in is the
\* toml crate's (sorted keys, or insertion order with preserve_order): any order.
LoadToml ==
    \E table \in Tables :
        \E order \in IterOrders(table) :
            Called([NoCall EXCEPT !.op = "load_toml", !.table = table,
                                  !.order = order],
                   load_toml(palette, table, order), Unit)

Next ==
    \/ NewDefault
    \/ IndexMut
    \/ SetColor
    \/ SetBasicColor
    \/ AddNamespace
    \/ Merge
    \/ Extend
    \/ LoadToml

Spec == Init /\ [][Next]_vars

(***************************************************************************)
(* The tree builder on its own: a config table is drawn, then built        *)
(* (iterate_toml) or loaded into a fresh palette (load_toml).              *)
(***************************************************************************)
TomlTexts == {"red", "green", "not-a-color"}
TomlScalars == {TString(t) : t \in TomlTexts} \cup {TBoolean(TRUE)}
TomlArrays ==
    {TArray(items) : items \in UNION {[1..n -> TomlScalars] : n \in 0..MaxArrayLen}}
TomlLeaves == TomlScalars \cup TomlArrays
TomlInnerTables == UNION {[S -> TomlLeaves] : S \in SUBSET {"a", "b"}}
TomlRootTables ==
    UNION { [S -> TomlLeaves \cup {TTable(t) : t \in TomlInnerTables}] :
              S \in SUBSET {"t"} }
    \cup { [t |-> TTable([n |-> TTable(t)]), shadow |-> TString(text)] :
              t \in {[a |-> TString("red")], EmptyMap, [b |-> TBoolean(TRUE)]},
              text \in TomlTexts }

TomlInit ==
    /\ palette = Default
    /\ pre = Default
    /\ \E table \in TomlRootTables : call = [NoCall EXCEPT !.op = "config", !.table = table]
    /\ ret = Unit
    /\ nops = 0

Build ==
    /\ call.op = "config"
    /\ \E order \in IterOrders(call.table) :
           /\ call' = [call EXCEPT !.op = "iterate_toml", !.order = order]
           /\ ret' = iterate_toml(call.table, order)
    /\ UNCHANGED <<palette, pre, nops>>

Load ==
    /\ call.op = "config"
    /\ \E order \in IterOrders(call.table) :
           Called([call EXCEPT !.op = "load_toml", !.order = order],
                  load_toml(palette, call.table, order), Unit)

TomlNext == Build \/ Load

SpecToml == TomlInit /\ [][TomlNext]_vars

(***************************************************************************)
(* Properties.                                                             *)
(***************************************************************************)

\* C1. Totality: in every reachable palette each of the 11 roles has a color
\* in basic, so the lookup palette[r] is defined for every role r.
Totality ==
    /\ DOMAIN palette.basic = PaletteColor
    /\ \A r \in PaletteColor : index(palette, r) \in Color

\* A merge that overwrote a role, as the second call on the palette.
TotalityWitness ==
    /\ call.op = "merge"
    /\ nops = 2
    /\ palette.basic # pre.basic
    /\ index(palette, "Shadow") = "Light(Red)"

\* The custom map after custom[key] = ColorValue(color) is inserted in `before`.
CustomInserted(before, after, key, color) ==
    /\ DOMAIN after = (DOMAIN before) \cup {key}
    /\ after[key] = ColorNode(color)
    /\ \A k \in (DOMAIN before) \ {key} : after[k] = before[k]

\* C2 as stated. set_color(name, color): if name matches a role name or its
\* snake_case alias without regard to case, basic[role] is overwritten and
\* custom is unchanged; otherwise custom[name] = ColorValue(color) is inserted
\* and basic is unchanged.
SetColorDispatchIgnoringCase ==
    call.op = "set_color" =>
        LET named == RoleNamedIgnoringCase(call.key)
        IN  IF named # {}
            THEN /\ \E r \in named : palette.basic = [pre.basic EXCEPT ![r] = call.color]
                 /\ palette.custom = pre.custom
            ELSE /\ CustomInserted(pre.custom, palette.custom, call.key, call.color)
                 /\ palette.basic = pre.basic

\* C2 as amended. set_color(name, color): if name is exactly a role's
\* PascalCase name or its snake_case alias, basic[role] is overwritten and
\* custom is unchanged; otherwise (other capitalisations included)
\* custom[name] = ColorValue(color) is inserted and basic is unchanged.
SetColorDispatchExact ==
    call.op = "set_color" =>
        LET named == RoleNamed(call.key)
        IN  IF named # {}
            THEN /\ \E r \in named : palette.basic = [pre.basic EXCEPT ![r] = call.color]
                 /\ palette.custom = pre.custom
            ELSE /\ CustomInserted(pre.custom, palette.custom, call.key, call.color)
                 /\ palette.basic = pre.basic

\* set_color("BACKGROUND", c) on a palette that has custom entries already.
SetColorDispatchWitness ==
    /\ call.op = "set_color"
    /\ call.key = "BACKGROUND"
    /\ pre.custom # EmptyMap
    /\ custom(palette, "BACKGROUND") = Some(call.color)
    /\ palette.basic = pre.basic

\* C3. Round-trip override: after set_color(s, C) with s a spelling of role r,
\* palette[r] is C and custom(s) is None.
RoundTripOverride ==
    call.op = "set_color" =>
        \A r \in PaletteColor :
            call.key \in Spellings[r] =>
                /\ index(palette, r) = call.color
                /\ custom(palette, call.key) = None

\* set_color("Background", c) on a palette whose custom map has an entry (a
\* namespace) under "Background".
RoundTripOverrideWitness ==
    /\ call.op = "set_color"
    /\ call.key = "Background"
    /\ "Background" \in DOMAIN pre.custom
    /\ index(pre, "Background") # call.color
    /\ index(palette, "Background") = call.color

\* C4. Namespace shallow replace: when custom[n] is a Namespace holding key k
\* mapped to a Namespace M, merge(n) returns a palette whose custom[k] is
\* exactly Namespace(M), whatever custom[k] was before.
ShallowReplace ==
    call.op = "merge" =>
        LET sel == Get(pre.custom, call.key)
        IN  (sel # None /\ sel[1].type = "Namespace") =>
                \A k \in DOMAIN sel[1].map :
                    sel[1].map[k].type = "Namespace" =>
                        /\ k \in DOMAIN palette.custom
                        /\ palette.custom[k] = NamespaceNode(sel[1].map[k].map)

\* merge("theme") where theme holds a -> Namespace({x}) and the palette had
\* a -> Namespace({y}) before.
ShallowReplaceWitness ==
    /\ call.op = "merge"
    /\ call.key = "theme"
    /\ Get(pre.custom, "theme") = Some(NamespaceNode([a |-> NamespaceNode(Mx)]))
    /\ Get(pre.custom, "a") = Some(NamespaceNode(My))
    /\ Get(palette.custom, "a") = Some(NamespaceNode(Mx))

\* C5. Frame of merge: merge(n) agrees with the original on every top-level
\* custom key that is not a key of the Namespace at custom[n], and on every
\* role that no color key of that Namespace names; when custom[n] is absent
\* or a ColorValue the returned palette equals the original.
MergeFrame ==
    call.op = "merge" =>
        LET sel == Get(pre.custom, call.key)
        IN  IF sel # None /\ sel[1].type = "Namespace"
            THEN LET m == sel[1].map
                 IN  /\ (DOMAIN palette.custom) \ (DOMAIN m) = (DOMAIN pre.custom) \ (DOMAIN m)
                     /\ \A k \in (DOMAIN pre.custom) \ (DOMAIN m) :
                            palette.custom[k] = pre.custom[k]
                     /\ \A r \in PaletteColor :
                            (~ \E k \in DOMAIN m : m[k].type = "Color" /\ k \in Spellings[r])
                                => index(palette, r) = index(pre, r)
            ELSE palette = pre

\* A merge of a namespace holding a color for a role and a namespace, on a
\* palette with an unrelated custom color: the role is overwritten, the
\* namespace installed, the unrelated color and the other roles kept.
MergeFrameWitness ==
    /\ call.op = "merge"
    /\ call.key = "theme"
    /\ index(pre, "Shadow") = "Dark(Black)"
    /\ index(palette, "Shadow") = "Dark(Green)"
    /\ "a" \notin DOMAIN pre.custom
    /\ "a" \in DOMAIN palette.custom
    /\ custom(pre, "x") = Some("Dark(Green)")
    /\ custom(palette, "x") = Some("Dark(Green)")

\* C6. merge is deterministic: for the palette and any namespace name,
\* merge(n) yields the same palette whatever order the entries of the selected
\* namespace are iterated in.
MergeDeterministic ==
    \A n \in NamespaceKeys :
        LET sel == merge_selected(palette, n)
        IN  sel # None =>
                \A o1, o2 \in IterOrders(sel[1]) :
                    merge(palette, n, o1) = merge(palette, n, o2)

\* C7. set_basic_color(name, color) returns the no-such-role error for every
\* name that is no role name or alias, and then leaves the palette unchanged.
SetBasicColorFails ==
    (call.op = "set_basic_color" /\ RoleNamed(call.key) = {}) =>
        /\ ret = Err(NoSuchColor)
        /\ palette = pre

\* set_basic_color("BACKGROUND", c) failed on a palette that is not the
\* default one.
SetBasicColorFailsWitness ==
    /\ call.op = "set_basic_color"
    /\ call.key = "BACKGROUND"
    /\ ret = Err(NoSuchColor)
    /\ pre # Default
    /\ palette = pre

\* C8. Alias equivalence: on every reachable palette, for each role and color,
\* set_basic_color with the PascalCase name and with the snake_case alias both
\* succeed and give the same palette.
AliasEquivalence ==
    \A r \in PaletteColor, c \in InColors :
        LET pascal == set_basic_color(palette, r, c)
            snake == set_basic_color(palette, SnakeName[r], c)
        IN  /\ pascal.ret = Ok(Unit)
            /\ snake.ret = Ok(Unit)
            /\ pascal.self = snake.self

\* set_basic_color("title_secondary", c) succeeded and changed the palette as
\* set_basic_color("TitleSecondary", c) would have.
AliasEquivalenceWitness ==
    /\ call.op = "set_basic_color"
    /\ call.key = "title_secondary"
    /\ ret = Ok(Unit)
    /\ palette # pre
    /\ index(palette, "TitleSecondary") = call.color
    /\ pre.custom # EmptyMap

\* The conversion of one config node, as the builder's contract states it.
RECURSIVE Converted(_)
Converted(value) ==
    CASE value.kind = "String" ->
           IF ColorParse(value.str) # None
           THEN Some(ColorNode(ColorParse(value.str)[1])) ELSE None
      [] value.kind = "Array" ->
           LET valid == {i \in 1..Len(value.items) :
                            /\ value.items[i].kind = "String"
                            /\ ColorParse(value.items[i].str) # None}
           IN  IF valid = {} THEN None
               ELSE LET first == CHOOSE i \in valid : \A j \in valid : i <= j
                    IN  Some(ColorNode(ColorParse(value.items[first].str)[1]))
      [] value.kind = "Table" ->
           LET kept == {k \in DOMAIN value.table : Converted(value.table[k]) # None}
           IN  Some(NamespaceNode([k \in kept |-> Converted(value.table[k])[1]]))
      [] OTHER -> None

\* C9. The tree builder's result equals the reference conversion: for every
\* table, iterate_toml yields exactly one (key, node) pair for each child whose
\* conversion produces a node, in the order the table is visited, and no pair
\* for the others.
BuilderMatchesReference ==
    call.op = "iterate_toml" =>
        LET kept == {k \in DOMAIN call.table : Converted(call.table[k]) # None}
        IN  /\ Len(ret) = Cardinality(kept)
            /\ {ret[i] : i \in 1..Len(ret)} = {<<k, Converted(call.table[k])[1]>> : k \in kept}
            /\ \A i, j \in 1..Len(ret) :
                   i < j => \E a, b \in 1..Len(call.order) :
                                a < b /\ call.order[a] = ret[i][1] /\ call.order[b] = ret[j][1]

\* A nested table with one valid color string and one boolean leaf was
\* built into a namespace with exactly the valid entry.
BuilderMatchesReferenceWitness ==
    /\ call.op = "iterate_toml"
    /\ call.table = [t |-> TTable([a |-> TString("red"), b |-> TBoolean(TRUE)])]
    /\ ret = << <<"t", NamespaceNode([a |-> ColorNode("Dark(Red)")])>> >>

====
